---- MODULE Spec2Model ----
(***************************************************************************)
(* XeroClientHelper: OAuth2 token exchange, token freshness check,         *)
(* refresh-on-demand and Redis persistence of the token set.               *)
(*                                                                         *)
(* Optional JavaScript values are sequences of length 0 or 1:             *)
(*   <<>> is undefined/null, <<v>> is the value v.                         *)
(* Every `await` of the source is a yield point: the code between two      *)
(* awaits is one action of a caller, and callers interleave at awaits.     *)
(***************************************************************************)
EXTENDS Integers, Sequences, FiniteSets, TLC

\* ------------------------------------------------------------------ bounds
\* number of one-second clock ticks a behaviour may take
MaxTicks == 2
\* number of token sets the OAuth provider issues in a behaviour
MaxTokens == 2
\* clock at process start, in seconds since the epoch
StartSeconds == 200
\* input ranges of the freshness-policy specification
MaxClock == 4
MaxExp == 66

\* --------------------------------------------------------------- constants
\* the freshness margin of isExpiredOrNearExpiry, in seconds
MarginSeconds == 60

Callers == {"c1", "c2"}

Undefined == <<>>
Some(v) == <<v>>

\* --------------------------------------------------------------- token sets
\* lifetimes (seconds) of the token sets the provider issues
Lifetimes == {30, MarginSeconds, MarginSeconds + 1}

MkToken(at, rt, exp) == [access_token |-> at, refresh_token |-> rt, expires_at |-> exp]

\* token sets the provider can return from an exchange or a refresh at second s
IssuedAt(id, s) ==
  { MkToken(id, rt, Some(s + l)) : rt \in {Undefined, Some(id)}, l \in Lifetimes }

\* token sets that may already be in the cache when the process starts
InitRecords ==
  { MkToken(0, rt, exp) :
      rt \in {Undefined, Some(0)},
      exp \in {Undefined, Some(0), Some(StartSeconds - 100), Some(StartSeconds + MarginSeconds)} }

\* ------------------------------------------------------------ freshness
\* Number(tokenSet?.expires_at) || 0 : a missing token set, a missing field
\* and the number 0 all give 0
ExpiresAtOrZero(tokenSet) ==
  IF tokenSet = Undefined THEN 0
  ELSE IF tokenSet[1].expires_at = Undefined THEN 0
  ELSE tokenSet[1].expires_at[1]

\* Math.floor(Date.now() / 1000)
NowSeconds(dateNow) == dateNow \div 1000

IsExpiredOrNearExpiry_Inclusive(tokenSet, dateNow) ==
  LET expiresAt == ExpiresAtOrZero(tokenSet)
  IN  expiresAt = 0 \/ expiresAt - NowSeconds(dateNow) <= MarginSeconds

IsExpiredOrNearExpiry_NoMargin(tokenSet, dateNow) ==
  LET expiresAt == ExpiresAtOrZero(tokenSet)
  IN  expiresAt = 0 \/ expiresAt - NowSeconds(dateNow) < 0

\* isExpiredOrNearExpiry(tokenSet), with Date.now() made an argument
IsExpiredOrNearExpiry(tokenSet, dateNow) ==
  LET expiresAt == ExpiresAtOrZero(tokenSet)
  IN  expiresAt = 0 \/ expiresAt - NowSeconds(dateNow) < MarginSeconds

\* ------------------------------------------------------------- JSON, Redis
\* a Redis reply / stored value: the key is missing ("nil"), or a string that
\* is empty, not JSON ("garbage"), the JSON literal null, or a JSON object
Payload(kind, body) == [kind |-> kind, body |-> body]
NilPayload == Payload("nil", <<>>)

Member(key, val) == [key |-> key, val |-> val]

JSONstringify_DropRefresh(tokenSet) ==
  Payload("object", <<Member("access_token", tokenSet.access_token)>>
                    \o (IF tokenSet.expires_at = Undefined THEN <<>>
                        ELSE <<Member("expires_at", tokenSet.expires_at[1])>>))

\* JSON.stringify of a token set: members whose value is undefined are omitted
JSONstringify(tokenSet) ==
  Payload("object",
          <<Member("access_token", tokenSet.access_token)>>
          \o (IF tokenSet.refresh_token = Undefined THEN <<>>
              ELSE <<Member("refresh_token", tokenSet.refresh_token[1])>>)
          \o (IF tokenSet.expires_at = Undefined THEN <<>>
              ELSE <<Member("expires_at", tokenSet.expires_at[1])>>))

\* property read obj[key] on a parsed object: undefined when the key is absent
Lookup(body, key) ==
  LET hits == SelectSeq(body, LAMBDA m : m.key = key)
  IN  IF hits = <<>> THEN Undefined ELSE Some(hits[Len(hits)].val)

\* JSON.parse: "threw" on text that is not JSON, else the parsed value
JSONparse(raw) ==
  CASE raw.kind = "object" ->
         [threw |-> FALSE,
          value |-> Some(MkToken(Lookup(raw.body, "access_token")[1],
                                 Lookup(raw.body, "refresh_token"),
                                 Lookup(raw.body, "expires_at")))]
    [] raw.kind = "null" -> [threw |-> FALSE, value |-> Undefined]
    [] OTHER -> [threw |-> TRUE, value |-> Undefined]

\* the outcome of loadTokenSet
Loaded(value) == [threw |-> FALSE, value |-> value]

LoadTokenSet_FailClosed(getOk, raw) ==
  IF ~getOk THEN [threw |-> TRUE, value |-> Undefined]
  ELSE IF raw.kind \in {"nil", "empty"} THEN Loaded(Undefined)
  ELSE JSONparse(raw)

\* loadTokenSet: getOk says whether redis.get resolved, raw is its reply
LoadTokenSet(getOk, raw) ==
  IF ~getOk THEN Loaded(Undefined)
  ELSE IF raw.kind \in {"nil", "empty"} THEN Loaded(Undefined)
  ELSE IF JSONparse(raw).threw THEN Loaded(Undefined)
  ELSE Loaded(JSONparse(raw).value)

\* values the cache key may hold when the process starts
InitPayloads ==
  { NilPayload, Payload("empty", <<>>), Payload("garbage", <<>>), Payload("null", <<>>) }
  \cup { JSONstringify(r) : r \in InitRecords }

\* --------------------------------------------------------- request inputs
\* the `code` argument: undefined, or a string given as its characters
CodeInputs == { Undefined, Some(<<>>), Some(<<" ">>), Some(<<" ", "a", " ">>), Some(<<"a">>) }

RECURSIVE TrimStart(_)
TrimStart(s) == IF s # <<>> /\ Head(s) = " " THEN TrimStart(Tail(s)) ELSE s

RECURSIVE TrimEnd(_)
TrimEnd(s) == IF s # <<>> /\ s[Len(s)] = " " THEN TrimEnd(SubSeq(s, 1, Len(s) - 1)) ELSE s

\* String.prototype.trim
Trim(s) == TrimEnd(TrimStart(s))

CodeMissing_NoTrim(code) == code = Undefined \/ code[1] = <<>>

\* !code?.trim()
CodeMissing(code) == code = Undefined \/ Trim(code[1]) = <<>>

\* ------------------------------------------------------------------ state
VARIABLES
  tokenSet,        \* xeroClient.tokenSet
  tenants,         \* xeroClient.tenants
  redisVal,        \* the value under TOKEN_SET_KEY in Redis
  dateNow,         \* Date.now(), milliseconds
  nextTok,         \* id of the next token set the provider issues
  redirectUris,    \* xeroClient.config.redirectUris
  providerTenants, \* the connections the provider reports
  pc,              \* where each caller's call is suspended
  loc,             \* each caller's locals and the record of its current call
  lastSaved,       \* token set of the last completed redis.set
  probe            \* input and verdict of the freshness-policy specification

vars == <<tokenSet, tenants, redisVal, dateNow, nextTok, redirectUris,
          providerTenants, pc, loc, lastSaved, probe>>

client == <<tokenSet, tenants>>
env == <<dateNow, nextTok, redirectUris, providerTenants>>

\* a caller's locals before a call
Blank ==
  [ op         |-> "none",
    stored     |-> Undefined,    \* ensureAuthenticated: stored
    refreshed  |-> Undefined,    \* ensureAuthenticated: refreshed
    exchanged  |-> Undefined,    \* getTokenFromCode: tokenSet
    data       |-> NilPayload,   \* saveTokenSet: data
    auth       |-> "none",       \* how ensureAuthenticated ended
    outcome    |-> "none",       \* "ok" or "error" once the call has settled
    error      |-> "none",
    retToken   |-> Undefined,
    retTenants |-> <<>>,
    startTok   |-> Undefined,    \* xeroClient.tokenSet when the call began
    startNow   |-> 0,            \* Date.now() when the call began
    raw        |-> Undefined,    \* loadTokenSet: raw
    code       |-> Undefined,    \* getTokenFromCode: code
    startRedis |-> NilPayload,   \* the value under TOKEN_SET_KEY when the call began
    refreshRes |-> "none",       \* refreshWithRefreshToken: "threw", "empty" or "record"
    refreshArg |-> Undefined,    \* refresh token passed to refreshWithRefreshToken
    getRes     |-> "none",       \* redis.get: "ok" or "err"
    setRes     |-> "none",       \* redis.set: "ok" or "err"
    nGet       |-> 0,
    nSet       |-> 0,
    nRefresh   |-> 0,
    nUpdate    |-> 0,
    nCallback  |-> 0 ]

Init ==
  /\ tokenSet = Undefined
  /\ tenants = <<>>
  /\ redisVal \in InitPayloads
  /\ dateNow = StartSeconds * 1000
  /\ nextTok = 1
  /\ redirectUris \in {<<>>, <<"uri">>}
  /\ providerTenants \in {<<>>, <<1>>}
  /\ pc = [c \in Callers |-> "idle"]
  /\ loc = [c \in Callers |-> Blank]
  /\ lastSaved = Undefined
  /\ probe = [tokenSet |-> Undefined, dateNow |-> 0, verdict |-> "none"]

\* ---------------------------------------------------------------- helpers
\* the call of caller c settles: its promise resolves or rejects
Settled(c, l) ==
  /\ pc' = [pc EXCEPT ![c] = "done"]
  /\ loc' = [loc EXCEPT ![c] = l]

Resolve(l) == [l EXCEPT !.outcome = "ok"]
Reject(l, error) == [l EXCEPT !.outcome = "error", !.error = error]

\* caller c suspends at the await named by label
Suspend(c, label, l) ==
  /\ pc' = [pc EXCEPT ![c] = label]
  /\ loc' = [loc EXCEPT ![c] = l]

\* stored?.refresh_token
RefreshTokenOf(stored) ==
  IF stored = Undefined THEN Undefined ELSE stored[1].refresh_token

\* ------------------------------------------------------ ensureAuthenticated
TryRefresh_Always(c, l) ==
  Suspend(c, "ea_refresh",
          [l EXCEPT !.nRefresh = @ + 1, !.refreshArg = RefreshTokenOf(l.stored)])

\* the try block of ensureAuthenticated up to its first await: with a refresh
\* token in `stored`, refreshWithRefreshToken is called; without one, the
\* block is left and "Xero authentication required" is thrown
TryRefresh(c, l) ==
  IF RefreshTokenOf(l.stored) # Undefined
  THEN Suspend(c, "ea_refresh",
               [l EXCEPT !.nRefresh = @ + 1, !.refreshArg = RefreshTokenOf(l.stored)])
  ELSE Settled(c, Reject([l EXCEPT !.auth = "authRequired"], "authRequired"))

BeginGetTenants_AlwaysLoad(c) ==
  /\ pc[c] = "idle"
  /\ LET l == [Blank EXCEPT !.op = "getTenants",
                            !.startTok = tokenSet,
                            !.startNow = dateNow,
                            !.startRedis = redisVal]
     IN  Suspend(c, "ea_get", [l EXCEPT !.nGet = @ + 1])
  /\ UNCHANGED <<client, redisVal, env, lastSaved, probe>>

BeginGetTenants_NoFreshCheck(c) ==
  /\ pc[c] = "idle"
  /\ LET l == [Blank EXCEPT !.op = "getTenants",
                            !.startTok = tokenSet,
                            !.startNow = dateNow,
                            !.startRedis = redisVal]
     IN  IF tokenSet # Undefined
         THEN Suspend(c, "gt_auth", [l EXCEPT !.auth = "ok"])
         ELSE Suspend(c, "ea_get", [l EXCEPT !.nGet = @ + 1])
  /\ UNCHANGED <<client, redisVal, env, lastSaved, probe>>

\* getTenants() is called: ensureAuthenticated runs up to its first await.
\* A fresh in-memory token set returns at once; otherwise redis.get is issued.
BeginGetTenants(c) ==
  /\ pc[c] = "idle"
  /\ LET l == [Blank EXCEPT !.op = "getTenants",
                            !.startTok = tokenSet,
                            !.startNow = dateNow,
                            !.startRedis = redisVal]
     IN  IF tokenSet # Undefined /\ ~IsExpiredOrNearExpiry(tokenSet, dateNow)
         THEN Suspend(c, "gt_auth", [l EXCEPT !.auth = "ok"])
         ELSE Suspend(c, "ea_get", [l EXCEPT !.nGet = @ + 1])
  /\ UNCHANGED <<client, redisVal, env, lastSaved, probe>>

LoadDone_NoApply(c) ==
  /\ pc[c] = "ea_get"
  /\ \E getOk \in BOOLEAN :
       LET res == LoadTokenSet(getOk, redisVal)
           l == [loc[c] EXCEPT !.getRes = IF getOk THEN "ok" ELSE "err",
                               !.raw = IF getOk THEN Some(redisVal) ELSE Undefined,
                               !.stored = res.value]
       IN  IF res.threw
           THEN Settled(c, Reject([l EXCEPT !.auth = "storeError"], "storeError"))
           ELSE IF res.value # Undefined
           THEN Suspend(c, "ea_applied", l)
           ELSE TryRefresh(c, l)
  /\ UNCHANGED <<client, redisVal, env, lastSaved, probe>>

\* redis.get settles and loadTokenSet returns; a loaded token set is applied
\* to the client (setClientTokenSet), a missing one goes on to the try block
LoadDone(c) ==
  /\ pc[c] = "ea_get"
  /\ \E getOk \in BOOLEAN :
       LET res == LoadTokenSet(getOk, redisVal)
           l == [loc[c] EXCEPT !.getRes = IF getOk THEN "ok" ELSE "err",
                               !.raw = IF getOk THEN Some(redisVal) ELSE Undefined,
                               !.stored = res.value]
       IN  IF res.threw
           THEN /\ Settled(c, Reject([l EXCEPT !.auth = "storeError"], "storeError"))
                /\ UNCHANGED tokenSet
           ELSE IF res.value # Undefined
           THEN /\ tokenSet' = res.value
                /\ Suspend(c, "ea_applied", l)
           ELSE /\ TryRefresh(c, l)
                /\ UNCHANGED tokenSet
  /\ UNCHANGED <<tenants, redisVal, env, lastSaved, probe>>

StoredApplied_AlwaysRefresh(c) ==
  /\ pc[c] = "ea_applied"
  /\ TryRefresh(c, loc[c])
  /\ UNCHANGED <<client, redisVal, env, lastSaved, probe>>

\* after `await setClientTokenSet(stored)`: a fresh stored token set returns,
\* a stale one goes on to the try block
StoredApplied(c) ==
  /\ pc[c] = "ea_applied"
  /\ IF ~IsExpiredOrNearExpiry(loc[c].stored, dateNow)
     THEN Suspend(c, "gt_auth", [loc[c] EXCEPT !.auth = "ok"])
     ELSE TryRefresh(c, loc[c])
  /\ UNCHANGED <<client, redisVal, env, lastSaved, probe>>

RefreshDone_NoApply(c) ==
  /\ pc[c] = "ea_refresh"
  /\ \/ /\ \E res \in {"threw", "empty"} :
             Settled(c, Reject([loc[c] EXCEPT !.auth = "authRequired", !.refreshRes = res],
                               "authRequired"))
        /\ UNCHANGED nextTok
     \/ /\ nextTok <= MaxTokens
        /\ \E r \in IssuedAt(nextTok, NowSeconds(dateNow)) :
             Suspend(c, "ea_refreshed", [loc[c] EXCEPT !.refreshed = Some(r),
                                                       !.refreshRes = "record"])
        /\ nextTok' = nextTok + 1
  /\ UNCHANGED <<client, redisVal, dateNow, redirectUris, providerTenants, lastSaved, probe>>

RefreshDone_Surfaced(c) ==
  /\ pc[c] = "ea_refresh"
  /\ \/ /\ \E res \in {"threw", "empty"} :
             Settled(c, Reject([loc[c] EXCEPT !.auth = "refreshFailed", !.refreshRes = res],
                               IF res = "threw" THEN "refreshFailed" ELSE "authRequired"))
        /\ UNCHANGED <<tokenSet, nextTok>>
     \/ /\ nextTok <= MaxTokens
        /\ \E r \in IssuedAt(nextTok, NowSeconds(dateNow)) :
             /\ tokenSet' = Some(r)
             /\ Suspend(c, "ea_refreshed", [loc[c] EXCEPT !.refreshed = Some(r),
                                                       !.refreshRes = "record"])
        /\ nextTok' = nextTok + 1
  /\ UNCHANGED <<tenants, redisVal, dateNow, redirectUris, providerTenants, lastSaved, probe>>

\* refreshWithRefreshToken settles: it throws (caught and logged) or returns
\* nothing, and "Xero authentication required" is thrown; or it returns a
\* newly issued token set, which is applied to the client
RefreshDone(c) ==
  /\ pc[c] = "ea_refresh"
  /\ \/ /\ \E res \in {"threw", "empty"} :
             Settled(c, Reject([loc[c] EXCEPT !.auth = "authRequired", !.refreshRes = res],
                               "authRequired"))
        /\ UNCHANGED <<tokenSet, nextTok>>
     \/ /\ nextTok <= MaxTokens
        /\ \E r \in IssuedAt(nextTok, NowSeconds(dateNow)) :
             /\ tokenSet' = Some(r)
             /\ Suspend(c, "ea_refreshed", [loc[c] EXCEPT !.refreshed = Some(r),
                                                       !.refreshRes = "record"])
        /\ nextTok' = nextTok + 1
  /\ UNCHANGED <<tenants, redisVal, dateNow, redirectUris, providerTenants, lastSaved, probe>>

SaveRefreshed_Stored(c) ==
  /\ pc[c] = "ea_refreshed"
  /\ Suspend(c, "ea_set", [loc[c] EXCEPT !.data = JSONstringify(loc[c].stored[1]),
                                         !.nSet = @ + 1])
  /\ UNCHANGED <<client, redisVal, env, lastSaved, probe>>

\* after `await setClientTokenSet(refreshed)`: saveTokenSet serializes the
\* token set and issues redis.set
SaveRefreshed(c) ==
  /\ pc[c] = "ea_refreshed"
  /\ Suspend(c, "ea_set", [loc[c] EXCEPT !.data = JSONstringify(loc[c].refreshed[1]),
                                         !.nSet = @ + 1])
  /\ UNCHANGED <<client, redisVal, env, lastSaved, probe>>

SaveRefreshedDone_DeleteOnFailure(c) ==
  /\ pc[c] = "ea_set"
  /\ \E setOk \in BOOLEAN :
       /\ IF setOk
          THEN redisVal' = loc[c].data /\ lastSaved' = loc[c].refreshed
          ELSE redisVal' = NilPayload /\ UNCHANGED lastSaved
       /\ Suspend(c, "gt_auth", [loc[c] EXCEPT !.auth = "ok",
                                               !.setRes = IF setOk THEN "ok" ELSE "err"])
  /\ UNCHANGED <<client, env, probe>>

\* redis.set settles; a failure is logged and swallowed by saveTokenSet, and
\* ensureAuthenticated returns
SaveRefreshedDone(c) ==
  /\ pc[c] = "ea_set"
  /\ \E setOk \in BOOLEAN :
       /\ IF setOk
          THEN redisVal' = loc[c].data /\ lastSaved' = loc[c].refreshed
          ELSE UNCHANGED <<redisVal, lastSaved>>
       /\ Suspend(c, "gt_auth", [loc[c] EXCEPT !.auth = "ok",
                                               !.setRes = IF setOk THEN "ok" ELSE "err"])
  /\ UNCHANGED <<client, env, probe>>

\* --------------------------------------------------------------- getTenants
TenantsCheck_AlwaysFetch(c) ==
  /\ pc[c] = "gt_auth"
  /\ Suspend(c, "gt_update", [loc[c] EXCEPT !.nUpdate = @ + 1])
  /\ UNCHANGED <<client, redisVal, env, lastSaved, probe>>

\* after `await this.ensureAuthenticated()`: an empty tenant list is fetched
\* with updateTenants, a non-empty one is returned
TenantsCheck(c) ==
  /\ pc[c] = "gt_auth"
  /\ IF tenants = <<>>
     THEN Suspend(c, "gt_update", [loc[c] EXCEPT !.nUpdate = @ + 1])
     ELSE Settled(c, Resolve([loc[c] EXCEPT !.retTenants = tenants]))
  /\ UNCHANGED <<client, redisVal, env, lastSaved, probe>>

\* updateTenants settles: it throws ("Failed to retrieve tenants") or sets
\* xeroClient.tenants, which is returned
TenantsFetched(c) ==
  /\ pc[c] = "gt_update"
  /\ \/ /\ Settled(c, Reject(loc[c], "tenantsFailed"))
        /\ UNCHANGED tenants
     \/ /\ tenants' = providerTenants
        /\ Settled(c, Resolve([loc[c] EXCEPT !.retTenants = providerTenants]))
  /\ UNCHANGED <<tokenSet, redisVal, env, lastSaved, probe>>

\* --------------------------------------------------------- getTokenFromCode
BeginGetTokenFromCode_NoRedirectCheck(c) ==
  /\ pc[c] = "idle"
  /\ \E code \in CodeInputs :
       LET l == [Blank EXCEPT !.op = "getTokenFromCode", !.startTok = tokenSet,
                                 !.startNow = dateNow, !.startRedis = redisVal,
                                 !.code = code]
       IN  IF CodeMissing(code)
           THEN Settled(c, Reject(l, "codeRequired"))
           ELSE Suspend(c, "tc_callback", [l EXCEPT !.nCallback = @ + 1])
  /\ UNCHANGED <<client, redisVal, env, lastSaved, probe>>

\* getTokenFromCode(code) is called: the code and the redirect URI are
\* validated and apiCallback is issued
BeginGetTokenFromCode(c) ==
  /\ pc[c] = "idle"
  /\ \E code \in CodeInputs :
       LET l == [Blank EXCEPT !.op = "getTokenFromCode", !.startTok = tokenSet,
                                 !.startNow = dateNow, !.startRedis = redisVal,
                                 !.code = code]
       IN  IF CodeMissing(code)
           THEN Settled(c, Reject(l, "codeRequired"))
           ELSE IF redirectUris = <<>>
           THEN Settled(c, Reject(l, "notConfigured"))
           ELSE Suspend(c, "tc_callback", [l EXCEPT !.nCallback = @ + 1])
  /\ UNCHANGED <<client, redisVal, env, lastSaved, probe>>

ExchangeDone_NoApply(c) ==
  /\ pc[c] = "tc_callback"
  /\ \/ /\ Settled(c, Reject(loc[c], "exchangeFailed"))
        /\ UNCHANGED nextTok
     \/ /\ nextTok <= MaxTokens
        /\ \E r \in IssuedAt(nextTok, NowSeconds(dateNow)) :
             Suspend(c, "tc_applied", [loc[c] EXCEPT !.exchanged = Some(r)])
        /\ nextTok' = nextTok + 1
  /\ UNCHANGED <<client, redisVal, dateNow, redirectUris, providerTenants, lastSaved, probe>>

\* apiCallback settles: it throws ("Failed to exchange authorization code")
\* or returns a newly issued token set, which is applied to the client
ExchangeDone(c) ==
  /\ pc[c] = "tc_callback"
  /\ \/ /\ Settled(c, Reject(loc[c], "exchangeFailed"))
        /\ UNCHANGED <<tokenSet, nextTok>>
     \/ /\ nextTok <= MaxTokens
        /\ \E r \in IssuedAt(nextTok, NowSeconds(dateNow)) :
             /\ tokenSet' = Some(r)
             /\ Suspend(c, "tc_applied", [loc[c] EXCEPT !.exchanged = Some(r)])
        /\ nextTok' = nextTok + 1
  /\ UNCHANGED <<tenants, redisVal, dateNow, redirectUris, providerTenants, lastSaved, probe>>

ExchangeApplied_SaveFirst(c) ==
  /\ pc[c] = "tc_applied"
  /\ Suspend(c, "tc_update", [loc[c] EXCEPT !.nUpdate = @ + 1])
  /\ redisVal' = JSONstringify(loc[c].exchanged[1])
  /\ UNCHANGED <<client, env, lastSaved, probe>>

\* after `await this.setClientTokenSet(tokenSet)`: updateTenants is issued
ExchangeApplied(c) ==
  /\ pc[c] = "tc_applied"
  /\ Suspend(c, "tc_update", [loc[c] EXCEPT !.nUpdate = @ + 1])
  /\ UNCHANGED <<client, redisVal, env, lastSaved, probe>>

ExchangeTenantsDone_Raw(c) ==
  /\ pc[c] = "tc_update"
  /\ \/ /\ Settled(c, Reject(loc[c], "tenantsFailed"))
        /\ UNCHANGED tenants
     \/ /\ tenants' = providerTenants
        /\ Suspend(c, "tc_set", [loc[c] EXCEPT !.data = JSONstringify(loc[c].exchanged[1]),
                                               !.nSet = @ + 1])
  /\ UNCHANGED <<tokenSet, redisVal, env, lastSaved, probe>>

\* updateTenants settles: it throws (wrapped as the exchange failure) or sets
\* xeroClient.tenants; then saveTokenSet serializes and issues redis.set
ExchangeTenantsDone(c) ==
  /\ pc[c] = "tc_update"
  /\ \/ /\ Settled(c, Reject(loc[c], "exchangeFailed"))
        /\ UNCHANGED tenants
     \/ /\ tenants' = providerTenants
        /\ Suspend(c, "tc_set", [loc[c] EXCEPT !.data = JSONstringify(loc[c].exchanged[1]),
                                               !.nSet = @ + 1])
  /\ UNCHANGED <<tokenSet, redisVal, env, lastSaved, probe>>

SaveExchangedDone_Abort(c) ==
  /\ pc[c] = "tc_set"
  /\ \E setOk \in BOOLEAN :
       /\ IF setOk
          THEN redisVal' = loc[c].data /\ lastSaved' = loc[c].exchanged
          ELSE UNCHANGED <<redisVal, lastSaved>>
       /\ IF setOk
          THEN Settled(c, Resolve([loc[c] EXCEPT !.retToken = loc[c].exchanged,
                                                 !.setRes = "ok"]))
          ELSE Settled(c, Reject([loc[c] EXCEPT !.setRes = "err"], "exchangeFailed"))
  /\ UNCHANGED <<client, env, probe>>

\* redis.set settles; a failure is logged and swallowed, and the token set
\* is returned
SaveExchangedDone(c) ==
  /\ pc[c] = "tc_set"
  /\ \E setOk \in BOOLEAN :
       /\ IF setOk
          THEN redisVal' = loc[c].data /\ lastSaved' = loc[c].exchanged
          ELSE UNCHANGED <<redisVal, lastSaved>>
       /\ Settled(c, Resolve([loc[c] EXCEPT !.retToken = loc[c].exchanged,
                                            !.setRes = IF setOk THEN "ok" ELSE "err"]))
  /\ UNCHANGED <<client, env, probe>>

\* ------------------------------------------------------------- environment
\* the caller takes the result; it may call again
Return(c) ==
  /\ pc[c] = "done"
  /\ pc' = [pc EXCEPT ![c] = "idle"]
  /\ loc' = [loc EXCEPT ![c] = Blank]
  /\ UNCHANGED <<client, redisVal, env, lastSaved, probe>>

\* one second passes
Tick ==
  /\ NowSeconds(dateNow) < StartSeconds + MaxTicks
  /\ dateNow' = dateNow + 1000
  /\ UNCHANGED <<client, redisVal, nextTok, redirectUris, providerTenants,
                 pc, loc, lastSaved, probe>>

Step(c) ==
  \/ LoadDone(c)
  \/ StoredApplied(c)
  \/ RefreshDone(c)
  \/ SaveRefreshed(c)
  \/ SaveRefreshedDone(c)
  \/ TenantsCheck(c)
  \/ TenantsFetched(c)
  \/ ExchangeDone(c)
  \/ ExchangeApplied(c)
  \/ ExchangeTenantsDone(c)
  \/ SaveExchangedDone(c)
  \/ Return(c)

Begin(c) == BeginGetTenants(c) \/ BeginGetTokenFromCode(c)

AllIdle == \A c \in Callers : pc[c] = "idle"

\* calls are made one at a time: a call begins when no call is in flight
Next ==
  \/ \E c \in Callers : AllIdle /\ Begin(c)
  \/ \E c \in Callers : Step(c)
  \/ Tick

Spec == Init /\ [][Next]_vars

\* ------------------------------------------------------- a healthy store
\* neither redis.get nor redis.set has failed in the call
StoreHealthy(l) == l.getRes # "err" /\ l.setRes # "err"

\* a caller resumes at its await and the store answers: every redis.get
\* and every redis.set that settles in the step succeeds
HealthyStep(c) == Step(c) /\ StoreHealthy(loc'[c])

\* calls are made one at a time against a store that never fails
HealthyNext ==
  \/ \E c \in Callers : AllIdle /\ Begin(c)
  \/ \E c \in Callers : HealthyStep(c)
  \/ Tick

HealthySpec == Init /\ [][HealthyNext]_vars

\* ------------------------------------------------------- overlapping calls
\* a configured process whose cache is empty or holds a stale token set
RaceInit ==
  /\ Init
  /\ redirectUris # <<>>
  /\ providerTenants # <<>>
  /\ redisVal \in { NilPayload }
                  \cup { JSONstringify(MkToken(0, rt, Some(StartSeconds - 100))) :
                           rt \in {Undefined, Some(0)} }

\* a caller resumes at its await; the result of a settled call is kept
Resume(c) ==
  \/ LoadDone(c)
  \/ StoredApplied(c)
  \/ RefreshDone(c)
  \/ SaveRefreshed(c)
  \/ SaveRefreshedDone(c)
  \/ TenantsCheck(c)
  \/ TenantsFetched(c)
  \/ ExchangeDone(c)
  \/ ExchangeApplied(c)
  \/ ExchangeTenantsDone(c)
  \/ SaveExchangedDone(c)

\* each caller makes one call, and a caller may begin its call while the
\* other caller's call is suspended at an await
RaceNext ==
  \/ \E c \in Callers : Begin(c)
  \/ \E c \in Callers : Resume(c)
  \/ Tick

RaceSpec == RaceInit /\ [][RaceNext]_vars

\* ------------------------------------------------- freshness policy alone
PolicyTokenSets ==
  { Undefined }
  \cup { Some(MkToken(0, Undefined, exp)) :
           exp \in {Undefined} \cup { Some(e) : e \in (-2 .. 2) \cup ((MarginSeconds - 2) .. MaxExp) } }

PolicyClocks == { s * 1000 + ms : s \in 0 .. MaxClock, ms \in {0, 999} }

PolicyInit ==
  /\ Init
  /\ redisVal = NilPayload
  /\ redirectUris = <<>>
  /\ providerTenants = <<>>

\* isExpiredOrNearExpiry is applied to a token set at a clock value
Judge ==
  /\ \E t \in PolicyTokenSets, d \in PolicyClocks :
       probe' = [tokenSet |-> t, dateNow |-> d,
                 verdict |-> IF IsExpiredOrNearExpiry(t, d) THEN "expired" ELSE "fresh"]
  /\ UNCHANGED <<tokenSet, tenants, redisVal, dateNow, nextTok, redirectUris,
                 providerTenants, pc, loc, lastSaved>>

PolicyNext == Judge

PolicySpec == PolicyInit /\ [][PolicyNext]_vars

\* ================================================================= claims
\* the fields of a token set as the specification reads them
HasExpiry(t) == t # Undefined /\ t[1].expires_at # Undefined
ExpiryOf(t) == t[1].expires_at[1]
HasRefreshToken(t) == t # Undefined /\ t[1].refresh_token # Undefined

\* the freshness policy as specified: a positive expires_at at least the
\* margin ahead of the clock (seconds)
FreshBySpec(t, nowSec) ==
  HasExpiry(t) /\ ExpiryOf(t) > 0 /\ ExpiryOf(t) - nowSec >= MarginSeconds

Judged == probe.verdict # "none"
ProbeNow == probe.dateNow \div 1000

\* C1 (as stated): a token set with expires_at <= now + 60 is judged not
\* fresh, one with expires_at > now + 60 is judged fresh, and one whose
\* expires_at is missing, zero or negative is judged not fresh.
C1_AsStated ==
  Judged =>
    /\ (~HasExpiry(probe.tokenSet) \/ ExpiryOf(probe.tokenSet) <= 0)
         => probe.verdict = "expired"
    /\ (HasExpiry(probe.tokenSet) /\ ExpiryOf(probe.tokenSet) <= ProbeNow + MarginSeconds)
         => probe.verdict = "expired"
    /\ (HasExpiry(probe.tokenSet) /\ ExpiryOf(probe.tokenSet) > ProbeNow + MarginSeconds)
         => probe.verdict = "fresh"

\* C1 (amended): a token set with expires_at < now + 60 is judged not fresh,
\* one with a positive expires_at >= now + 60 is judged fresh, and one whose
\* expires_at is missing, zero or negative is judged not fresh.
C1_FreshnessBoundary ==
  Judged =>
    /\ (~HasExpiry(probe.tokenSet) \/ ExpiryOf(probe.tokenSet) <= 0)
         => probe.verdict = "expired"
    /\ (HasExpiry(probe.tokenSet) /\ ExpiryOf(probe.tokenSet) < ProbeNow + MarginSeconds)
         => probe.verdict = "expired"
    /\ (HasExpiry(probe.tokenSet) /\ ExpiryOf(probe.tokenSet) > 0
          /\ ExpiryOf(probe.tokenSet) >= ProbeNow + MarginSeconds)
         => probe.verdict = "fresh"

\* a token set exactly the margin ahead of the clock was judged
C1_Witness ==
  /\ Judged
  /\ HasExpiry(probe.tokenSet)
  /\ ExpiryOf(probe.tokenSet) = ProbeNow + MarginSeconds
  /\ probe.verdict = "fresh"

\* C2: isExpiredOrNearExpiry returns false (the token set is usable) if and
\* only if expires_at is a positive number and expires_at - now >= 60.
C2_UsableIff ==
  Judged =>
    (probe.verdict = "fresh"
       <=> /\ HasExpiry(probe.tokenSet)
           /\ ExpiryOf(probe.tokenSet) > 0
           /\ ExpiryOf(probe.tokenSet) - ProbeNow >= MarginSeconds)

\* a token set well inside the margin was judged unusable although its
\* expires_at is positive and still in the future
C2_Witness ==
  /\ Judged
  /\ HasExpiry(probe.tokenSet)
  /\ ExpiryOf(probe.tokenSet) - ProbeNow = MarginSeconds - 1
  /\ ProbeNow > 0
  /\ probe.verdict = "expired"

\* ------------------------------------------------------------------------
InCall(c, op) == loc[c].op = op
Done(c, op) == pc[c] = "done" /\ loc[c].op = op
StartSec(c) == loc[c].startNow \div 1000

\* what load() returns from the cache as it is now, the store being healthy
Persisted == LoadTokenSet(TRUE, redisVal).value

NoIO(l) == l.nGet = 0 /\ l.nSet = 0 /\ l.nRefresh = 0

C3_Call(c) ==
  (/\ pc[c] = "idle"
   /\ pc'[c] # "idle"
   /\ loc'[c].op = "getTenants"
   /\ FreshBySpec(tokenSet, dateNow \div 1000))
  => /\ pc'[c] = "gt_auth"
     /\ loc'[c].auth = "ok"
     /\ NoIO(loc'[c])
     /\ tokenSet' = tokenSet
     /\ redisVal' = redisVal

C3_After(c) ==
  (InCall(c, "getTenants") /\ FreshBySpec(loc[c].startTok, StartSec(c)))
  => loc[c].auth = "ok" /\ NoIO(loc[c])

\* C3: when the in-memory client holds a fresh token, ensureAuthenticated
\* returns successfully in the step in which it is called, without a cache
\* read, a refresh or a cache write, and leaves the in-memory token and the
\* persisted record unchanged; this holds for every such call, repeated or not.
C3_FreshNoIO ==
  /\ [](\A c \in Callers : C3_After(c))
  /\ [][\A c \in Callers : C3_Call(c)]_vars

\* ensureAuthenticated has returned to getTenants on a fresh in-memory token
\* that an earlier call of this process put there
C3_Witness ==
  \E c \in Callers :
    /\ pc[c] = "gt_auth"
    /\ FreshBySpec(loc[c].startTok, StartSec(c))
    /\ loc[c].startTok = tokenSet
    /\ NoIO(loc[c])

\* C4: when ensureAuthenticated reaches the refresh step and the in-memory
\* token or the loaded record carries a refresh token, the refresh operation
\* is called with it: the call never ends in "authentication required" with
\* no refresh call made while such a refresh token is at hand.
C4_RefreshFromMemoryOrLoaded ==
  \A c \in Callers :
    (Done(c, "getTenants") /\ loc[c].auth = "authRequired" /\ loc[c].nRefresh = 0)
    => ~HasRefreshToken(tokenSet) /\ ~HasRefreshToken(loc[c].stored)

\* the case the claim names: nothing loaded, the in-memory token carries a
\* refresh token, and no refresh call is made
C4_Divergence ==
  \E c \in Callers :
    /\ Done(c, "getTenants")
    /\ loc[c].stored = Undefined
    /\ HasRefreshToken(tokenSet)
    /\ loc[c].error = "authRequired"
    /\ loc[c].nRefresh = 0

\* scenario B: no in-memory token, a cached record that is expired and carries
\* a refresh token, a successful refresh, a provider with a tenant
ScenarioB(c) ==
  /\ Done(c, "getTenants")
  /\ loc[c].startTok = Undefined
  /\ loc[c].stored # Undefined
  /\ ~FreshBySpec(loc[c].stored, StartSec(c))
  /\ HasRefreshToken(loc[c].stored)
  /\ loc[c].refreshed # Undefined
  /\ providerTenants # <<>>

ScenarioB_Result(c) ==
  /\ loc[c].nRefresh = 1
  /\ loc[c].refreshArg = loc[c].stored[1].refresh_token
  /\ loc[c].outcome = "ok"
  /\ loc[c].retTenants # <<>>
  /\ tokenSet = loc[c].refreshed
  /\ Persisted = loc[c].refreshed

\* C5 (as stated): in scenario B getTenants issues exactly one refresh call,
\* succeeds with a non-empty tenant list, and afterwards the in-memory token
\* and the persisted record are both the refreshed record.
C5_AsStated ==
  \A c \in Callers : ScenarioB(c) => ScenarioB_Result(c)

\* C5 (amended): the same, provided the cache write of the refreshed record
\* succeeds and the tenant-list call does not fail.
C5_ScenarioB ==
  \A c \in Callers :
    (ScenarioB(c) /\ loc[c].setRes = "ok" /\ loc[c].error # "tenantsFailed")
    => ScenarioB_Result(c)

\* the scenario as written: the cached record expired 100 seconds ago
C5_Witness ==
  \E c \in Callers :
    /\ ScenarioB(c)
    /\ HasExpiry(loc[c].stored)
    /\ ExpiryOf(loc[c].stored) = StartSec(c) - 100
    /\ loc[c].setRes = "ok"
    /\ loc[c].nUpdate = 1
    /\ ScenarioB_Result(c)

\* scenario C: no fresh in-memory token, a cached record that is expired and
\* carries no refresh token
ScenarioC(c) ==
  /\ InCall(c, "getTenants")
  /\ ~FreshBySpec(loc[c].startTok, StartSec(c))
  /\ loc[c].stored # Undefined
  /\ ~FreshBySpec(loc[c].stored, StartSec(c))
  /\ ~HasRefreshToken(loc[c].stored)

\* C6: in scenario C getTenants makes no refresh call, no tenant-list call and
\* no cache write, and it fails with "authentication required".
C6_ScenarioC ==
  \A c \in Callers :
    ScenarioC(c) =>
      /\ loc[c].nRefresh = 0 /\ loc[c].nUpdate = 0 /\ loc[c].nSet = 0
      /\ loc[c].outcome # "ok"
      /\ pc[c] = "done" => (loc[c].outcome = "error" /\ loc[c].error = "authRequired")

\* the scenario as written: the cached record expired 100 seconds ago
C6_Witness ==
  \E c \in Callers :
    /\ ScenarioC(c)
    /\ HasExpiry(loc[c].stored)
    /\ ExpiryOf(loc[c].stored) = StartSec(c) - 100
    /\ pc[c] = "done"
    /\ loc[c].error = "authRequired"
    /\ loc[c].getRes = "ok"

\* C7: with a healthy store, a getTokenFromCode call whose exchange and
\* tenant refresh succeed returns the token record the exchange issued, and
\* when it returns the persisted record (what load returns) and the in-memory
\* client token are both that record.
C7_ScenarioA ==
  \A c \in Callers :
    (Done(c, "getTokenFromCode") /\ loc[c].exchanged # Undefined
       /\ loc[c].error # "exchangeFailed" /\ loc[c].setRes = "ok")
    => /\ loc[c].outcome = "ok"
       /\ loc[c].retToken = loc[c].exchanged
       /\ Persisted = loc[c].retToken
       /\ tokenSet = loc[c].retToken

\* the scenario as written: a fresh process (no in-memory token, nothing under
\* the cache key), and the returned record expires in the future
C7_Witness ==
  \E c \in Callers :
    /\ Done(c, "getTokenFromCode")
    /\ loc[c].outcome = "ok"
    /\ loc[c].setRes = "ok"
    /\ loc[c].startTok = Undefined
    /\ nextTok = 2
    /\ HasRefreshToken(loc[c].retToken)
    /\ ExpiryOf(loc[c].retToken) > dateNow \div 1000
    /\ Persisted = loc[c].retToken

\* C8: with a healthy store, a load() that follows a completed save(r) with no
\* write in between returns a record equal to r.
C8_RoundTrip ==
  \A c \in Callers :
    (loc[c].getRes = "ok" /\ loc[c].nSet = 0 /\ lastSaved # Undefined)
    => loc[c].stored = lastSaved

\* a later call loaded the record, refresh token included, that an earlier
\* call saved
C8_Witness ==
  \E c \in Callers :
    /\ pc[c] = "ea_applied"
    /\ loc[c].getRes = "ok"
    /\ lastSaved # Undefined
    /\ HasRefreshToken(lastSaved)
    /\ loc[c].stored = lastSaved

\* the load of caller c found nothing usable: the read failed, the key was
\* missing or empty, or the payload was not JSON
LoadFoundNothing(c) ==
  \/ loc[c].getRes = "err"
  \/ loc[c].getRes = "ok" /\ loc[c].raw[1].kind \in {"nil", "empty", "garbage"}

\* C9: load never raises: on a failed read, a missing key or a malformed
\* payload it returns "absent", and ensureAuthenticated then ends in
\* "authentication required"; no getTenants call ever fails with a store error.
C9_FailOpenLoad ==
  \A c \in Callers :
    InCall(c, "getTenants") =>
      /\ loc[c].auth \in {"none", "ok", "authRequired"}
      /\ loc[c].error \in {"none", "authRequired", "tenantsFailed"}
      /\ LoadFoundNothing(c) =>
           /\ loc[c].stored = Undefined
           /\ pc[c] = "done"
           /\ loc[c].auth = "authRequired"
           /\ loc[c].error = "authRequired"

\* a malformed payload was read and the call ended in "authentication required"
C9_Witness ==
  \E c \in Callers :
    /\ Done(c, "getTenants")
    /\ loc[c].getRes = "ok"
    /\ loc[c].raw[1].kind = "garbage"
    /\ loc[c].stored = Undefined
    /\ loc[c].error = "authRequired"

\* C10: a cache write failure aborts nothing: getTokenFromCode still returns
\* the exchanged token record and the in-memory client holds it, and
\* ensureAuthenticated still returns successfully after a refresh.
C10_WriteFailureSwallowed ==
  \A c \in Callers :
    /\ (InCall(c, "getTokenFromCode") /\ loc[c].setRes = "err")
       => /\ pc[c] = "done"
          /\ loc[c].outcome = "ok"
          /\ loc[c].exchanged # Undefined
          /\ loc[c].retToken = loc[c].exchanged
          /\ tokenSet = loc[c].exchanged
    /\ (InCall(c, "getTenants") /\ loc[c].setRes = "err")
       => /\ loc[c].refreshed # Undefined
          /\ loc[c].auth = "ok"
          /\ loc[c].error # "authRequired"

\* getTokenFromCode returned its token record although redis.set failed
C10_Witness ==
  \E c \in Callers :
    /\ Done(c, "getTokenFromCode")
    /\ loc[c].setRes = "err"
    /\ loc[c].outcome = "ok"
    /\ loc[c].retToken # Undefined

\* ------------------------------------------------------------------------
\* a code that is undefined, empty or made of whitespace only
BlankCode(code) ==
  code = Undefined \/ \A i \in 1 .. Len(code[1]) : code[1][i] = " "

NoCalls(l) ==
  l.nCallback = 0 /\ l.nUpdate = 0 /\ l.nGet = 0 /\ l.nSet = 0 /\ l.nRefresh = 0

\* the step is caller c calling getTokenFromCode
CallsGetTokenFromCode(c) ==
  pc[c] = "idle" /\ pc'[c] # "idle" /\ loc'[c].op = "getTokenFromCode"

C11_Call(c) ==
  (CallsGetTokenFromCode(c) /\ BlankCode(loc'[c].code))
  => /\ pc'[c] = "done"
     /\ loc'[c].outcome = "error"
     /\ loc'[c].error = "codeRequired"
     /\ NoCalls(loc'[c])
     /\ tokenSet' = tokenSet
     /\ redisVal' = redisVal

\* C11: getTokenFromCode with an undefined, empty or whitespace-only code fails
\* with "Authorization code is required" in the step in which it is called,
\* with no exchange, tenant or cache call made and the in-memory token and the
\* persisted record unchanged, whether or not a redirect URI is configured.
C11_CodeRequired ==
  [][\A c \in Callers : C11_Call(c)]_vars

\* a whitespace-only code was rejected in a process with no redirect URI
C11_Witness ==
  \E c \in Callers :
    /\ Done(c, "getTokenFromCode")
    /\ loc[c].code = Some(<<" ">>)
    /\ redirectUris = <<>>
    /\ loc[c].error = "codeRequired"

C12_Call(c) ==
  (CallsGetTokenFromCode(c) /\ ~BlankCode(loc'[c].code) /\ redirectUris = <<>>)
  => /\ pc'[c] = "done"
     /\ loc'[c].outcome = "error"
     /\ loc'[c].error = "notConfigured"
     /\ loc'[c].error \notin {"codeRequired", "exchangeFailed"}
     /\ NoCalls(loc'[c])
     /\ tokenSet' = tokenSet
     /\ redisVal' = redisVal

\* C12: getTokenFromCode with a code that is not blank, in a process with no
\* redirect URI, fails with "XERO_REDIRECT_URIS not configured", an error other
\* than the missing-code error and the wrapped exchange failure, without
\* calling the exchange and with the in-memory token and the persisted record
\* unchanged.
C12_NotConfigured ==
  [][\A c \in Callers : C12_Call(c)]_vars

C12_Witness ==
  \E c \in Callers :
    /\ Done(c, "getTokenFromCode")
    /\ loc[c].code = Some(<<" ", "a", " ">>)
    /\ redirectUris = <<>>
    /\ loc[c].error = "notConfigured"
    /\ loc[c].nCallback = 0

\* C13: when the refresh call throws or returns no record, ensureAuthenticated
\* fails with the same "authentication required" condition as when there is
\* no refresh token, and the persisted record is the one the call loaded.
C13_RefreshFailure ==
  \A c \in Callers :
    (InCall(c, "getTenants") /\ loc[c].refreshRes \in {"threw", "empty"})
    => /\ pc[c] = "done"
       /\ loc[c].auth = "authRequired"
       /\ loc[c].outcome = "error"
       /\ loc[c].error = "authRequired"
       /\ loc[c].nSet = 0
       /\ redisVal = loc[c].startRedis

\* the refresh of a stale cached record returned nothing
C13_Witness ==
  \E c \in Callers :
    /\ Done(c, "getTenants")
    /\ loc[c].refreshRes = "empty"
    /\ loc[c].nRefresh = 1
    /\ loc[c].error = "authRequired"
    /\ redisVal = loc[c].startRedis
    /\ redisVal.kind = "object"

\* ------------------------------------------------------------------------
\* the step completes the cache write of caller c: the write of a successful
\* code exchange or of a successful refresh, of the record that call obtained
WriteOfExchange(c) ==
  /\ pc[c] = "tc_set"
  /\ loc[c].exchanged # Undefined
  /\ redisVal' = JSONstringify(loc[c].exchanged[1])
  /\ loc'[c].outcome = "ok"

WriteOfRefresh(c) ==
  /\ pc[c] = "ea_set"
  /\ loc[c].refreshRes = "record"
  /\ loc[c].refreshed # Undefined
  /\ redisVal' = JSONstringify(loc[c].refreshed[1])
  /\ loc'[c].auth = "ok"

C14_Step ==
  /\ redisVal' # redisVal => \E c \in Callers : WriteOfExchange(c) \/ WriteOfRefresh(c)
  /\ redisVal.kind # "nil" => redisVal'.kind # "nil"

C14_State ==
  lastSaved # Undefined =>
    /\ redisVal.kind = "object"
    /\ redisVal = JSONstringify(lastSaved[1])
    /\ Persisted = lastSaved

\* C14: the value under the cache key changes only in the cache write of a
\* successful code exchange or a successful refresh, and then to the complete
\* serialized record that the exchange or refresh returned; once the system
\* has written, the value is that complete record; and no step makes a
\* present value absent.  (Before the first write the key holds what the
\* process found there.)
C14_PersistedRecord ==
  /\ []C14_State
  /\ [][C14_Step]_vars

\* a refresh replaced in place the record that the process found in the cache
C14_Witness ==
  \E c \in Callers :
    /\ InCall(c, "getTenants")
    /\ loc[c].setRes = "ok"
    /\ loc[c].startRedis.kind = "object"
    /\ redisVal # loc[c].startRedis
    /\ lastSaved = loc[c].refreshed

\* ------------------------------------------------------------------------
\* ensureAuthenticated of caller c has ended
AuthEnded(c) == pc[c] \in {"gt_auth", "gt_update", "done"}

\* both callers ran ensureAuthenticated on the same stale cached record, both
\* issued a refresh, every refresh succeeded, and both have finished
RefreshRace(a, b) ==
  /\ a # b
  /\ \A c \in {a, b} :
       /\ InCall(c, "getTenants")
       /\ AuthEnded(c)
       /\ loc[c].nRefresh = 1
       /\ loc[c].refreshRes = "record"
       /\ HasRefreshToken(loc[c].stored)
  /\ loc[a].stored = loc[b].stored

\* C15: when two callers race ensureAuthenticated on a stale cached record
\* with a refresh token and both refresh calls succeed, both callers return
\* successfully, and once both have finished the persisted record is the
\* record of the last completed cache write, which is one of the two
\* refreshed records.
C15_BenignRace ==
  \A a, b \in Callers :
    RefreshRace(a, b) =>
      /\ loc[a].auth = "ok" /\ loc[b].auth = "ok"
      /\ loc[a].refreshed # loc[b].refreshed
      /\ (loc[a].setRes = "ok" \/ loc[b].setRes = "ok")
         => /\ lastSaved \in {loc[a].refreshed, loc[b].refreshed}
            /\ Persisted = lastSaved
            /\ loc[a].setRes = "err" => lastSaved = loc[b].refreshed
            /\ loc[b].setRes = "err" => lastSaved = loc[a].refreshed

\* both callers refreshed and both wrote; the record refreshed first was
\* written last and is the persisted one
C15_Witness ==
  \E a, b \in Callers :
    /\ RefreshRace(a, b)
    /\ loc[a].setRes = "ok" /\ loc[b].setRes = "ok"
    /\ loc[a].refreshed[1].access_token < loc[b].refreshed[1].access_token
    /\ Persisted = loc[a].refreshed

C17_State(c) ==
  InCall(c, "getTenants") =>
    /\ loc[c].nUpdate <= 1
    /\ loc[c].nUpdate = 1 => loc[c].auth = "ok"
    /\ loc[c].error = "tenantsFailed" => (loc[c].auth = "ok" /\ loc[c].nUpdate = 1)
    /\ loc[c].auth = "authRequired"
       => /\ pc[c] = "done"
          /\ loc[c].outcome = "error"
          /\ loc[c].error = "authRequired"
          /\ loc[c].nUpdate = 0

C17_Step(c) ==
  (loc[c].op = "getTenants" /\ loc'[c].op = "getTenants") =>
    /\ loc'[c].nUpdate > loc[c].nUpdate
       => (tenants = <<>> /\ loc[c].auth = "ok")
    /\ (pc[c] = "gt_auth" /\ pc'[c] # "gt_auth" /\ tenants # <<>>)
       => /\ pc'[c] = "done"
          /\ loc'[c].outcome = "ok"
          /\ loc'[c].nUpdate = 0
          /\ loc'[c].retTenants = tenants

\* C17: getTenants issues a tenant-list call only after ensureAuthenticated
\* has succeeded and only when the client's cached tenant list is empty: none
\* when the cached list is non-empty (the cached list is returned), at most
\* one otherwise; an authentication failure ends the call with the
\* "authentication required" error, not with "Failed to retrieve tenants".
C17_TenantFetch ==
  /\ [](\A c \in Callers : C17_State(c))
  /\ [][\A c \in Callers : C17_Step(c)]_vars

\* getTenants returned the cached, non-empty tenant list without a call
C17_Witness ==
  \E c \in Callers :
    /\ Done(c, "getTenants")
    /\ loc[c].outcome = "ok"
    /\ loc[c].nUpdate = 0
    /\ loc[c].retTenants # <<>>

\* ------------------------------------------------------------------------
C18_State(c) ==
  InCall(c, "getTenants") =>
    /\ loc[c].nGet <= 1
    /\ pc[c] = "ea_applied"
       => /\ loc[c].nGet = 1
          /\ ~FreshBySpec(loc[c].startTok, StartSec(c))
          /\ loc[c].stored # Undefined
          /\ tokenSet = loc[c].stored
    /\ loc[c].nRefresh >= 1
       => /\ loc[c].nGet = 1
          /\ loc[c].getRes = "ok"
          /\ loc[c].stored # Undefined
          /\ ~FreshBySpec(loc[c].stored, dateNow \div 1000)

C18_Step(c) ==
  (/\ pc[c] = "ea_applied"
   /\ pc'[c] # "ea_applied"
   /\ FreshBySpec(loc[c].stored, dateNow \div 1000))
  => /\ pc'[c] = "gt_auth"
     /\ loc'[c].auth = "ok"
     /\ loc'[c].nGet = 1
     /\ loc'[c].nRefresh = 0
     /\ loc'[c].nSet = 0
     /\ tokenSet' = loc[c].stored
     /\ redisVal' = redisVal

\* C18: with the in-memory token missing or stale and a fresh record in the
\* cache, ensureAuthenticated makes one cache read, applies the loaded record
\* to the client and returns successfully with no refresh call and no cache
\* write; and in every call a refresh is issued only after the one cache read
\* of that call returned a record that is not fresh.
C18_StepOrdering ==
  /\ [](\A c \in Callers : C18_State(c))
  /\ [][\A c \in Callers : C18_Step(c)]_vars

\* ensureAuthenticated has returned on the fresh record it loaded
C18_Witness ==
  \E c \in Callers :
    /\ pc[c] = "gt_auth"
    /\ loc[c].nGet = 1
    /\ loc[c].stored # Undefined
    /\ FreshBySpec(loc[c].stored, dateNow \div 1000)
    /\ tokenSet = loc[c].stored
    /\ loc[c].nRefresh = 0
    /\ loc[c].nSet = 0

\* ------------------------------------------------------------------------
\* the step is ensureAuthenticated of caller c returning without error
AuthReturns(c) ==
  loc'[c].op = "getTenants" /\ loc'[c].auth = "ok" /\ loc[c].auth # "ok"

C19_Step(c) ==
  AuthReturns(c) =>
    /\ tokenSet' # Undefined
    /\ \/ /\ loc'[c].refreshed = Undefined
          /\ FreshBySpec(tokenSet', dateNow \div 1000)
          /\ tokenSet' \in {loc'[c].startTok, loc'[c].stored}
       \/ /\ loc'[c].refreshed # Undefined
          /\ loc'[c].refreshRes = "record"
          /\ tokenSet' = loc'[c].refreshed

\* C19: when ensureAuthenticated returns without error, the in-memory client
\* holds a token set: either the in-memory or loaded one, fresh at that
\* moment, or the one that this call's refresh returned.
C19_AuthPostcondition ==
  [][\A c \in Callers : C19_Step(c)]_vars

\* ensureAuthenticated has returned on the token set its refresh returned
C19_Witness ==
  \E c \in Callers :
    /\ pc[c] = "gt_auth"
    /\ loc[c].auth = "ok"
    /\ loc[c].refreshed # Undefined
    /\ tokenSet = loc[c].refreshed
    /\ FreshBySpec(tokenSet, dateNow \div 1000)

Quiescent == \A c \in Callers : pc[c] \in {"idle", "done"}

\* C21 as stated: with a healthy store, in every quiescent state reached
\* after a successful code exchange or refresh (one whose record was
\* written to the cache), the in-memory token set equals the persisted
\* record, whatever calls were made before, failed ones included.
C21_AsStated ==
  (Quiescent /\ lastSaved # Undefined) => tokenSet = Persisted

\* the call of caller c has ended and leaves client and cache in agreement
\* when it is a getTokenFromCode that returned, or a getTenants whose
\* ensureAuthenticated loaded a record from the cache
C21_Synchronising(c) ==
  \/ Done(c, "getTokenFromCode") /\ loc[c].outcome = "ok"
  \/ Done(c, "getTenants") /\ loc[c].stored # Undefined

\* C21 (amended): with a healthy store and calls made one at a time, in the
\* quiescent state a call ends in, the in-memory token set equals the
\* persisted record when the call is a getTokenFromCode that succeeded or a
\* getTenants that loaded a record from the cache, whether that getTenants
\* succeeded or failed and whatever calls were made before.
C21_AgreementAfterCall ==
  \A c \in Callers :
    (Quiescent /\ C21_Synchronising(c)) =>
      (tokenSet # Undefined /\ tokenSet = Persisted)

\* a getTenants call that follows a successful exchange or refresh fails
\* with a stale in-memory token set and a stale loaded record, and the
\* client still agrees with the cache
C21_Witness ==
  \E c \in Callers :
    /\ Quiescent
    /\ Done(c, "getTenants")
    /\ loc[c].outcome = "error"
    /\ loc[c].startTok # Undefined
    /\ loc[c].stored # Undefined
    /\ lastSaved # Undefined
    /\ tokenSet = Persisted

\* two overlapping getTenants calls both refreshed and both wrote with the
\* store healthy, and the client holds one refreshed record while the
\* cache holds the other
C21_OverlapDivergence ==
  /\ Quiescent
  /\ \A c \in Callers :
        /\ Done(c, "getTenants")
        /\ loc[c].outcome = "ok"
        /\ loc[c].refreshed # Undefined
        /\ StoreHealthy(loc[c])
  /\ tokenSet # Persisted

====
